---- MODULE Spec2Model ----
(***************************************************************************)
(* Model of the Vigil batch drift-monitoring job (src/api/monitoring_job.py)*)
(* together with the prediction API that fills prediction_logs              *)
(* (src/api/main.py).  One cycle of main_monitoring_job is a sequence of    *)
(* steps; each step is the code between two calls that touch the outside    *)
(* world (file system, database, drift library, webhook).  Time is counted  *)
(* in whole hours.  The dashboard (src/dashboard/app.py) reads the metrics *)
(* table alongside the job in SpecDashboard.                               *)
(***************************************************************************)
EXTENDS Integers, Sequences, FiniteSets

\* ---------------------------------------------------------------- bounds
MaxTime == 1        \* the clock runs from 0 to MaxTime
MaxRecords == 1     \* at most this many rows in prediction_logs
MaxCycles == 2      \* at most this many invocations of main_monitoring_job

\* ------------------------------------------------------- configuration
\* Values the environment may give BATCH_HOURS (int(...), any integer): 24
\* is the default, the last two are lookbacks that datetime arithmetic
\* cannot represent.
BatchHoursValues == {-1, 0, 1, 24, 100000000, -100000000}
\* The clock counts whole hours from its hour 0, 2026-01-01 00:00:
\* ClockOrigin is that hour counted from datetime.min (0001-01-01 00:00),
\* DateTimeSpan the last whole hour before datetime.max (9999-12-31 23:00)
\* counted from datetime.min.
ClockOrigin == 17750784
DateTimeSpan == 87649415
\* datetime.min and the last hour of datetime, in hours of the clock.
DateTimeMin == -ClockOrigin
DateTimeMax == DateTimeSpan - ClockOrigin
\* Values the environment may give DRIFT_THRESHOLD.
DriftThresholdValues == {0, 1, 2}
\* required_features / numerical_features: feature_1, feature_2.
NumFeatures == 2

VARIABLES
    BATCH_HOURS,          \* configured lookback, read once at start
    DRIFT_THRESHOLD,      \* configured alert threshold, read once at start
    SLACK_WEBHOOK_URL,    \* TRUE iff a webhook URL is configured (non-empty)
    now,                  \* the wall clock, datetime.now()
    prediction_logs,      \* table prediction_logs: a set of rows
    monitoring_metrics,   \* table monitoring_metrics: committed rows, by id
    pc,                   \* position of the job inside main_monitoring_job
    current_data,         \* the fetched window (set of prediction_logs rows)
    start_time, end_time, \* window bounds computed by fetch_data_from_db
    report_dict,          \* result of run_evidently_report
    drift_score,          \* in-memory data_drift_score (0 or 1)
    num_drifted,          \* in-memory num_drifted_features
    drift_timestamp,      \* timestamp of drift_log, built before count_log
    cycles,               \* number of cycles started so far
    steps,                \* steps performed by the current/last cycle, in order
    session,              \* "none" | "open" | "closed": SessionLocal() of the cycle
    metrics_before,       \* Len(monitoring_metrics) when the cycle started
    alert_calls,          \* calls of send_slack_alert in the cycle
    http_posts,           \* requests.post attempts in the cycle
    alert_checked,        \* <<num_drifted_features, drift_score>> given to the alert check
    failures,             \* failures that occurred in the cycle
    outcome,              \* "none" | "running" | "returned" | "raised"
    dashboard,            \* metrics section of the last dashboard rendering:
                          \* "none" | "shown" | "index_error"
    metrics_cache,        \* st.cache_data entry of fetch_monitoring_metrics
    latest,               \* ids of latest_drift and latest_count as rendered
    dash_pc               \* position of the dashboard inside main:
                          \* "idle" | "waiting" (in get_prediction)

vars == <<BATCH_HOURS, DRIFT_THRESHOLD, SLACK_WEBHOOK_URL, now, prediction_logs,
          monitoring_metrics, pc, current_data, start_time, end_time,
          report_dict, drift_score, num_drifted, drift_timestamp, cycles,
          steps, session, metrics_before, alert_calls, http_posts,
          alert_checked, failures, outcome, dashboard, metrics_cache, latest,
          dash_pc>>

config == <<BATCH_HOURS, DRIFT_THRESHOLD, SLACK_WEBHOOK_URL>>
locals == <<current_data, start_time, end_time, report_dict,
            drift_score, num_drifted, drift_timestamp>>
history == <<steps, session, metrics_before, alert_calls, http_posts,
             alert_checked, failures, outcome>>
reader == <<dashboard, metrics_cache, latest, dash_pc>>

\* "not computed yet" for start_time / end_time / drift_timestamp (below
\* every time the clock shows)
NoTime == -(MaxTime + 100)
NoReport == [kind |-> "none"]
NoCheck == <<-1, -1>>
\* no cached result of fetch_monitoring_metrics
NoCache == [held |-> FALSE, frame |-> <<>>, ticks |-> 0]
\* no row looked up by the dashboard (ids start at 1)
NoLatest == <<0, 0>>

\* @st.cache_data(ttl=60): a cached frame is handed back for 60 seconds.
\* The clock of the model counts hours, so an entry outlives at most
\* CacheTicks advances of the clock.
CacheTtlSeconds == 60
SecondsPerHour == 3600
CacheTicks == (CacheTtlSeconds + SecondsPerHour - 1) \div SecondsPerHour

\* ------------------------------------------------------------- helpers

\* Column default of prediction_logs.prediction_time (declared in db_models):
\* the time of insertion.
prediction_time_default == now

\* PredictionLog row as logged by the API.
PredictionLog(id, t) == [id |-> id, prediction_time |-> t]

\* Variant: the upper bound is exclusive (prediction_time < :end_time).
WindowQuery_HalfOpen(logs, st, en) ==
    {r \in logs : st <= r.prediction_time /\ r.prediction_time < en}

\* WHERE prediction_time BETWEEN :start_time AND :end_time
WindowQuery(logs, st, en) ==
    {r \in logs : st <= r.prediction_time /\ r.prediction_time <= en}

\* MonitoringMetric(...) for the drift summary row; ts is the
\* datetime.now() read when the row is built.
drift_log(ts, score, ndrift, rows, st, en) ==
    [metric_name |-> "data_drift_summary",
     timestamp |-> ts,
     data_drift_score |-> score,
     num_drifted_features |-> ndrift,
     metric_value |-> score,
     report_summary |-> <<rows, ndrift>>,
     batch_start_time |-> st,
     batch_end_time |-> en]

\* MonitoringMetric(...) for the prediction count row; ts is the
\* datetime.now() read when the row is built.
count_log(ts, rows, st, en) ==
    [metric_name |-> "prediction_count",
     timestamp |-> ts,
     data_drift_score |-> 0,
     num_drifted_features |-> 0,
     metric_value |-> rows,
     report_summary |-> <<>>,
     batch_start_time |-> st,
     batch_end_time |-> en]

\* ------------------------------------------------------------------ Init
Init ==
    /\ BATCH_HOURS \in BatchHoursValues
    /\ DRIFT_THRESHOLD \in DriftThresholdValues
    /\ SLACK_WEBHOOK_URL \in BOOLEAN
    /\ now = 0
    /\ prediction_logs = {}
    /\ monitoring_metrics = <<>>
    /\ pc = "idle"
    /\ current_data = {}
    /\ start_time = NoTime
    /\ end_time = NoTime
    /\ report_dict = NoReport
    /\ drift_score = 0
    /\ num_drifted = 0
    /\ drift_timestamp = NoTime
    /\ cycles = 0
    /\ steps = <<>>
    /\ session = "none"
    /\ metrics_before = 0
    /\ alert_calls = 0
    /\ http_posts = 0
    /\ alert_checked = NoCheck
    /\ failures = {}
    /\ outcome = "none"
    /\ dashboard = "none"
    /\ metrics_cache = NoCache
    /\ latest = NoLatest
    /\ dash_pc = "idle"

\* ----------------------------------------------------------- environment

\* The wall clock advances; a cached frame grows older and expires.
Tick ==
    /\ now < MaxTime
    /\ now' = now + 1
    /\ metrics_cache' =
          IF metrics_cache.held /\ metrics_cache.ticks < CacheTicks
          THEN [metrics_cache EXCEPT !.ticks = @ + 1]
          ELSE NoCache
    /\ UNCHANGED <<config, prediction_logs, monitoring_metrics, pc, locals,
                   cycles, history, dashboard, latest, dash_pc>>

\* POST /predict: the API logs one prediction; a failed commit is rolled
\* back and logs nothing.
predict_and_log ==
    /\ Cardinality(prediction_logs) < MaxRecords
    /\ \E committed \in BOOLEAN :
         prediction_logs' =
            IF committed
            THEN prediction_logs \cup
                   {PredictionLog(Cardinality(prediction_logs) + 1,
                                  prediction_time_default)}
            ELSE prediction_logs
    /\ UNCHANGED <<config, now, monitoring_metrics, pc, locals, cycles, history,
                   reader>>

\* ------------------------------------------------- the monitoring job

Order == <<"load", "fetch", "detect", "persist", "alert">>

\* Variant: the existence check is missing.
ReferenceExists_Unchecked(ref) == TRUE

\* os.path.exists(REFERENCE_DATA_PATH)
ReferenceExists(ref) == ref # "missing"

\* end_time - timedelta(hours=lookback_hours) raises OverflowError when
\* the result is not a datetime: t is the hour of the result, which keeps
\* the minutes of end_time.
DateOutOfRange(t) == t < DateTimeMin \/ t > DateTimeMax

\* fetch_data_from_db: the window bounds and the rows read.  The bounds
\* are computed before the try: an OverflowError there leaves the
\* function.  A failed read (OperationalError or any other exception)
\* yields an empty frame and the bounds computed before the read.
fetch_data_from_db(read_ok) ==
    LET en == now
        st == en - BATCH_HOURS
    IN  [raised |-> DateOutOfRange(st),
         df |-> IF read_ok THEN WindowQuery(prediction_logs, st, en) ELSE {},
         start_time |-> st,
         end_time |-> en]

\* Variant: the empty-window check never fires.
Empty_Never(df) == FALSE

\* current_data.empty
Empty(df) == df = {}

\* An entry of a result dictionary: <<>> when the key is absent, <<v>> when
\* it is present with value v.  Get is dict.get(key, default).
Entries(values) == {<<>>} \cup {<<v>> : v \in values}
Get(entry, default) == IF entry = <<>> THEN default ELSE entry[1]

\* The largest count a report carries here: the library may count more
\* columns than the declared features.
MaxReportedCount == NumFeatures + 1
\* The largest rows_count a report carries here for a window: nothing in
\* the job ties the number to the size of the window.
MaxReportedRows(df) == Cardinality(df) + 1

\* The reports run_evidently_report may hand back for a window.  The drift
\* library decides what the result dictionaries hold: each of the three
\* keys the job reads may be present or not, and the two numbers are
\* whatever the library puts there.  "malformed" is a dictionary without
\* the metrics[i]['result'] entries (or with values int() rejects).
Reports(df) ==
    [kind : {"report"},
     dataset_drift : Entries(BOOLEAN),
     number_of_drifted_features : Entries(0..MaxReportedCount),
     rows_count : Entries(0..MaxReportedRows(df))]
    \cup {[kind |-> "malformed"]}

\* dataset_drift_flag = bool(drift_metric.get('dataset_drift', False));
\* data_drift_score = 1.0 if dataset_drift_flag else 0.0
DataDriftScore(report) == IF Get(report.dataset_drift, FALSE) THEN 1 ELSE 0

\* Variant: the count is derived from the dataset-level flag.
NumDriftedFeatures_FromFlag(report) ==
    IF Get(report.dataset_drift, FALSE) THEN NumFeatures ELSE 0

\* num_drifted_features = int(drift_metric.get('number_of_drifted_features', 0))
NumDriftedFeatures(report) == Get(report.number_of_drifted_features, 0)

\* rows_count = int(quality_metric_section.get('rows_count', 0))
RowsCount(report) == Get(report.rows_count, 0)

\* Variant: a commit replaces the rows already stored for the same window.
CommitMetrics_Upsert(table, rows, commit_ok) ==
    LET Other(r) == ~(/\ r.batch_start_time = rows[1].batch_start_time
                      /\ r.batch_end_time = rows[1].batch_end_time)
    IN  IF commit_ok THEN SelectSeq(table, Other) \o rows ELSE table

\* Variant: no rollback, the first row of a failed transaction stays.
CommitMetrics_NoRollback(table, rows, commit_ok) ==
    IF commit_ok THEN table \o rows ELSE Append(table, rows[1])

\* Variant: only the summary row is added to the session.
CommitMetrics_SummaryOnly(table, rows, commit_ok) ==
    IF commit_ok THEN Append(table, rows[1]) ELSE table

\* db.add_all([drift_log, count_log]); db.commit(), with db.rollback() on
\* failure: the table after the attempt.
CommitMetrics(table, rows, commit_ok) ==
    IF commit_ok THEN table \o rows ELSE table

\* Variant: non-strict comparison.
ShouldAlert_NonStrict(n, threshold) == n >= threshold

\* if num_drifted_features > DRIFT_THRESHOLD
ShouldAlert(n, threshold) == n > threshold

\* send_slack_alert: number of requests.post attempts for one call.
HttpAttempts(webhook, post_result) == IF webhook THEN 1 ELSE 0

\* Variant: requests.post is not wrapped in try/except.
AlertRaises_Unguarded(webhook, post_result) ==
    webhook /\ post_result = "exception"

\* send_slack_alert: does the call raise to its caller?
AlertRaises(webhook, post_result) == FALSE

\* Variant: the alert check is made before the rows are committed.
AfterDetect_AlertFirst == "alert"

\* Sequencing of main_monitoring_job / process_and_log_metrics.
AfterFetch(df) == IF Empty(df) THEN "idle" ELSE "detect"
AfterDetect == "persist"
AfterPersist == "alert"

\* Step 1: existence check and pd.read_csv of the reference data.  A new
\* cycle starts here, so the per-cycle bookkeeping is reset.
LoadReference ==
    /\ pc = "idle"
    /\ cycles < MaxCycles
    /\ cycles' = cycles + 1
    /\ \E ref \in {"missing", "unreadable", "ok"} :
         /\ failures' = IF ref = "missing" THEN {"reference_missing"}
                        ELSE IF ref = "unreadable" THEN {"reference_unreadable"}
                        ELSE {}
         /\ IF ~ReferenceExists(ref)
            THEN /\ pc' = "idle"
                 /\ outcome' = "returned"
            ELSE IF ref = "unreadable"
            THEN /\ pc' = "idle"
                 /\ outcome' = "raised"
            ELSE /\ pc' = "fetch"
                 /\ outcome' = "running"
    /\ steps' = <<"load">>
    /\ session' = "none"
    /\ metrics_before' = Len(monitoring_metrics)
    /\ alert_calls' = 0
    /\ http_posts' = 0
    /\ alert_checked' = NoCheck
    /\ current_data' = {}
    /\ start_time' = NoTime
    /\ end_time' = NoTime
    /\ report_dict' = NoReport
    /\ drift_score' = 0
    /\ num_drifted' = 0
    /\ drift_timestamp' = NoTime
    /\ UNCHANGED <<config, now, prediction_logs, monitoring_metrics, reader>>

\* Step 2: SessionLocal(), fetch_data_from_db and the empty-window check.
FetchWindow ==
    /\ pc = "fetch"
    /\ \E read_ok \in BOOLEAN :
         LET got == fetch_data_from_db(read_ok) IN
         /\ IF got.raised
            THEN /\ failures' = failures \cup {"fetch_bounds"}
                 /\ UNCHANGED <<current_data, start_time, end_time>>
                 /\ pc' = "idle"
                 /\ outcome' = "raised"
                 /\ session' = "closed"
            ELSE /\ failures' = IF read_ok THEN failures
                                ELSE failures \cup {"fetch"}
                 /\ current_data' = got.df
                 /\ start_time' = got.start_time
                 /\ end_time' = got.end_time
                 /\ pc' = AfterFetch(got.df)
                 /\ outcome' = IF pc' = "idle" THEN "returned" ELSE outcome
                 /\ session' = IF pc' = "idle" THEN "closed" ELSE "open"
    /\ steps' = Append(steps, "fetch")
    /\ UNCHANGED <<config, now, prediction_logs, monitoring_metrics,
                   report_dict, drift_score, num_drifted, drift_timestamp,
                   cycles, metrics_before, alert_calls, http_posts,
                   alert_checked, reader>>

\* Step 3: run_evidently_report.  The drift library may raise; nothing in
\* main_monitoring_job catches that, the finally block closes the session.
Detect ==
    /\ pc = "detect"
    /\ steps' = Append(steps, "detect")
    /\ \/ /\ \E r \in Reports(current_data) : report_dict' = r
          /\ pc' = AfterDetect
          /\ UNCHANGED <<failures, outcome, session>>
       \/ /\ failures' = failures \cup {"detect"}
          /\ pc' = "idle"
          /\ outcome' = "raised"
          /\ session' = "closed"
          /\ UNCHANGED report_dict
    /\ UNCHANGED <<config, now, prediction_logs, monitoring_metrics,
                   current_data, start_time, end_time, drift_score,
                   num_drifted, drift_timestamp, cycles, metrics_before,
                   alert_calls, http_posts, alert_checked, reader>>

\* Step 4, first part: process_and_log_metrics extracts the metrics from
\* the report (a KeyError is not caught) and builds drift_log, stamped
\* with the clock as it is then.
Persist ==
    /\ pc = "persist"
    /\ IF report_dict.kind = "malformed"
       THEN /\ failures' = failures \cup {"extract"}
            /\ pc' = "idle"
            /\ outcome' = "raised"
            /\ session' = "closed"
            /\ UNCHANGED <<drift_score, num_drifted, drift_timestamp>>
       ELSE /\ drift_score' = DataDriftScore(report_dict)
            /\ num_drifted' = NumDriftedFeatures(report_dict)
            /\ drift_timestamp' = now
            /\ pc' = "commit"
            /\ UNCHANGED <<failures, outcome, session>>
    /\ UNCHANGED <<config, now, prediction_logs, monitoring_metrics,
                   current_data, start_time, end_time, report_dict, cycles,
                   steps, metrics_before, alert_calls, http_posts,
                   alert_checked, reader>>

\* Step 4, second part: count_log is built, stamped with a second reading
\* of the clock, and both rows are committed in one transaction.  When the
\* commit fails, db.rollback() is called; an exception of the rollback
\* itself is not caught and leaves main_monitoring_job.
Commit ==
    /\ pc = "commit"
    /\ steps' = Append(steps, "persist")
    /\ \E commit_ok \in BOOLEAN, rollback_ok \in BOOLEAN :
         /\ monitoring_metrics' =
              CommitMetrics(monitoring_metrics,
                 <<drift_log(drift_timestamp, drift_score, num_drifted,
                             RowsCount(report_dict), start_time, end_time),
                   count_log(now, RowsCount(report_dict), start_time, end_time)>>,
                 commit_ok)
         /\ failures' = IF commit_ok THEN failures
                        ELSE IF rollback_ok THEN failures \cup {"commit"}
                        ELSE failures \cup {"commit", "rollback"}
         /\ IF commit_ok \/ rollback_ok
            THEN /\ pc' = AfterPersist
                 /\ UNCHANGED <<outcome, session>>
            ELSE /\ pc' = "idle"
                 /\ outcome' = "raised"
                 /\ session' = "closed"
    /\ UNCHANGED <<config, now, prediction_logs, locals, cycles,
                   metrics_before, alert_calls, http_posts, alert_checked,
                   reader>>

\* Step 5: check_for_drift_and_alert and send_slack_alert, then the return
\* through the finally block (db.close()).
Alert ==
    /\ pc = "alert"
    /\ steps' = Append(steps, "alert")
    /\ alert_checked' = <<num_drifted, drift_score>>
    /\ IF ShouldAlert(num_drifted, DRIFT_THRESHOLD)
       THEN \E post_result \in {"ok", "bad_status", "exception"} :
              /\ alert_calls' = alert_calls + 1
              /\ http_posts' = http_posts
                               + HttpAttempts(SLACK_WEBHOOK_URL, post_result)
              /\ failures' = IF SLACK_WEBHOOK_URL /\ post_result # "ok"
                             THEN failures \cup {"alert"} ELSE failures
              /\ outcome' = IF AlertRaises(SLACK_WEBHOOK_URL, post_result)
                            THEN "raised" ELSE "returned"
       ELSE /\ outcome' = "returned"
            /\ UNCHANGED <<alert_calls, http_posts, failures>>
    /\ pc' = "idle"
    /\ session' = "closed"
    /\ UNCHANGED <<config, now, prediction_logs, monitoring_metrics, locals,
                   cycles, metrics_before, reader>>

Next ==
    \/ Tick
    \/ predict_and_log
    \/ LoadReference
    \/ FetchWindow
    \/ Detect
    \/ Persist
    \/ Commit
    \/ Alert

Spec == Init /\ [][Next]_vars

\* ------------------------------------------------------- the dashboard

\* A row of monitoring_metrics as SELECT * returns it: the id the store
\* assigned (the position of the row in the table) and the columns.
FrameRow(i, r) ==
    [id |-> i,
     metric_name |-> r.metric_name,
     timestamp |-> r.timestamp,
     data_drift_score |-> r.data_drift_score,
     num_drifted_features |-> r.num_drifted_features,
     metric_value |-> r.metric_value,
     report_summary |-> r.report_summary,
     batch_start_time |-> r.batch_start_time,
     batch_end_time |-> r.batch_end_time]

\* ORDER BY timestamp DESC: no row comes before a row with a later
\* timestamp.  The order of rows with equal timestamps is left to the
\* store: here it lists them by ascending id or by descending id.
TieOrders == {"id_asc", "id_desc"}

\* Does row j of the table come before row i in the result?
ListedBefore(j, i, tie_order) ==
    \/ monitoring_metrics[j].timestamp > monitoring_metrics[i].timestamp
    \/ /\ monitoring_metrics[j].timestamp = monitoring_metrics[i].timestamp
       /\ IF tie_order = "id_asc" THEN j < i ELSE j > i

\* The table as the query lists it under one order of the ties.
OrderedByTimestampDesc(tie_order) ==
    LET n == Len(monitoring_metrics)
        Place(i) == 1 + Cardinality({j \in 1..n : ListedBefore(j, i, tie_order)})
        At(k) == CHOOSE i \in 1..n : Place(i) = k
    IN  [k \in 1..n |-> FrameRow(At(k), monitoring_metrics[At(k)])]

\* The rows of a frame with the given metric_name, in the frame's order:
\* metrics_df[metrics_df['metric_name'] == name]
RowsNamed(df, name) ==
    LET Named(r) == r.metric_name = name IN SelectSeq(df, Named)

\* The body of fetch_monitoring_metrics: the frames SELECT * FROM
\* monitoring_metrics ORDER BY timestamp DESC may return for the table as
\* it is now; a failed read gives an empty frame.
fetch_monitoring_metrics(read_ok) ==
    IF read_ok
    THEN {OrderedByTimestampDesc(tie_order) : tie_order \in TieOrders}
    ELSE {<<>>}

\* The monitoring section: no metrics are shown ("none") for an empty
\* frame; otherwise .iloc[0] of each kind is looked up, an IndexError if
\* there is none.
RenderMetrics(metrics_df) ==
    IF metrics_df = <<>> THEN "none"
    ELSE IF \/ RowsNamed(metrics_df, "data_drift_summary") = <<>>
            \/ RowsNamed(metrics_df, "prediction_count") = <<>>
    THEN "index_error"
    ELSE "shown"

\* latest_drift and latest_count: .iloc[0] of the rows of each kind, by id.
LatestShown(metrics_df) ==
    IF RenderMetrics(metrics_df) = "shown"
    THEN <<RowsNamed(metrics_df, "data_drift_summary")[1].id,
           RowsNamed(metrics_df, "prediction_count")[1].id>>
    ELSE NoLatest

\* A run of the dashboard page (main) in which the prediction form was
\* submitted: get_prediction sends POST /predict and waits for the answer
\* (up to 5 seconds), while the API, the job and the clock go on.  The API
\* serves the request as predict_and_log.
DashboardSubmit ==
    /\ dash_pc = "idle"
    /\ dash_pc' = "waiting"
    /\ UNCHANGED <<config, now, prediction_logs, monitoring_metrics, pc,
                   locals, cycles, history, dashboard, metrics_cache, latest>>

\* The rest of a run of the page: after a submitted prediction the answer
\* arrives, followed by st.cache_data.clear(), or does not (error, timeout);
\* a run without a submitted prediction starts here.  The metrics frame is
\* the cached one if the entry is there, was not cleared and its 60
\* seconds have not passed; otherwise the table is read and the result (an
\* empty frame after a failed read included) is cached.
DashboardRender ==
    LET read == fetch_monitoring_metrics(TRUE)
        not_read == fetch_monitoring_metrics(FALSE)
    IN  \E answered \in BOOLEAN :
            /\ answered => dash_pc = "waiting"
            /\ \/ /\ metrics_cache.held
                  /\ ~answered
                  /\ UNCHANGED metrics_cache
               \/ \E read_ok \in BOOLEAN :
                     \E metrics_df \in (IF read_ok THEN read ELSE not_read) :
                        metrics_cache' =
                           [held |-> TRUE, frame |-> metrics_df, ticks |-> 0]
            /\ dashboard' = RenderMetrics(metrics_cache'.frame)
            /\ latest' = LatestShown(metrics_cache'.frame)
            /\ dash_pc' = "idle"
            /\ UNCHANGED <<config, now, prediction_logs, monitoring_metrics,
                           pc, locals, cycles, history>>

NextWithDashboard ==
    \/ Next
    \/ DashboardSubmit
    \/ DashboardRender

\* The deployment as configured when the environment sets none of the
\* three variables: BATCH_HOURS 24, DRIFT_THRESHOLD 0, no webhook.
DefaultBatchHours == 24
DefaultDriftThreshold == 0
InitDefault ==
    /\ Init
    /\ BATCH_HOURS = DefaultBatchHours
    /\ DRIFT_THRESHOLD = DefaultDriftThreshold
    /\ SLACK_WEBHOOK_URL = FALSE

\* The job and its environment, with the dashboard reading alongside.
SpecDashboard == InitDefault /\ [][NextWithDashboard]_vars

\* ====================================================== properties

Did(step) == \E i \in 1..Len(steps) : steps[i] = step
IsPrefix(s, t) == Len(s) <= Len(t) /\ \A i \in 1..Len(s) : s[i] = t[i]
\* The count and the flag the cycle's report carries; 0 and FALSE stand in
\* for a key the report does not have, as in the job's .get(...) calls.
ReportedCount ==
    IF report_dict.number_of_drifted_features = <<>> THEN 0
    ELSE report_dict.number_of_drifted_features[1]
ReportedFlag ==
    IF report_dict.dataset_drift = <<>> THEN FALSE
    ELSE report_dict.dataset_drift[1]
ReportedScore == IF ReportedFlag THEN 1 ELSE 0

\* rows added to monitoring_metrics by the current/last cycle
Added == Len(monitoring_metrics) - metrics_before
CycleOver == pc = "idle" /\ cycles > 0

\* C1: a cycle whose fetched window has zero rows (nothing matched, or the
\* read failed) ends right after the fetch: it adds no row to
\* monitoring_metrics, never calls send_slack_alert and never posts.
C1_EmptyWindowNoMetricsNoAlert ==
    (Did("fetch") /\ current_data = {}) =>
        /\ pc = "idle"
        /\ steps = <<"load", "fetch">>
        /\ Added = 0
        /\ alert_calls = 0
        /\ http_posts = 0
        /\ alert_checked = NoCheck

\* A second cycle finds an empty frame because the read failed, although a
\* row is logged; the first cycle had committed its two rows.
C1_Witness ==
    /\ Did("fetch") /\ current_data = {}
    /\ "fetch" \in failures
    /\ prediction_logs # {}
    /\ cycles = 2
    /\ Len(monitoring_metrics) = 2

\* C2: in a cycle that reaches the alert check, send_slack_alert is called
\* (once) iff num_drifted_features > DRIFT_THRESHOLD, strictly; the HTTP
\* post then happens iff a webhook is configured as well.
C2_AlertIffAboveThreshold ==
    Did("alert") =>
        /\ alert_calls = (IF alert_checked[1] > DRIFT_THRESHOLD THEN 1 ELSE 0)
        /\ http_posts = (IF alert_checked[1] > DRIFT_THRESHOLD /\ SLACK_WEBHOOK_URL
                         THEN 1 ELSE 0)

\* threshold = 2 with 2 drifted features: no alert.
C2_Witness ==
    /\ Did("alert")
    /\ alert_checked[1] = 2
    /\ DRIFT_THRESHOLD = 2
    /\ alert_calls = 0

\* C3 as stated: when the commit of the two rows fails, neither row is in
\* monitoring_metrics, nothing is raised, and the alert check is made with
\* the num_drifted_features and drift score extracted from the report.
C3_CommitFailureRolledBackAlertStillChecked ==
    ("commit" \in failures) =>
        /\ Added = 0
        /\ outcome # "raised"
        /\ pc \in {"alert", "idle"}
        /\ num_drifted = ReportedCount
        /\ drift_score = ReportedScore
        /\ pc = "idle" =>
              /\ Did("alert")
              /\ alert_checked = <<ReportedCount,
                                   ReportedScore>>
              /\ alert_calls = (IF ReportedCount
                                     > DRIFT_THRESHOLD THEN 1 ELSE 0)

\* C4 as stated: a finished cycle that was not skipped (here even: that
\* got as far as attempting the commit) has appended exactly two rows.
C4_TwoRowsUnlessSkipped ==
    (CycleOver /\ Did("persist")) => Added = 2

\* C4 amended: a cycle appends two rows (summary, then count) or none,
\* never one; two exactly when it attempted the commit and the commit
\* succeeded.  The table is a sequence of such pairs.
C4_TwoRowsOrNone ==
    /\ Added \in {0, 2}
    /\ Added = 2 <=> (Did("persist") /\ "commit" \notin failures)
    /\ Len(monitoring_metrics) <= 2 * cycles
    /\ \A i \in 1..Len(monitoring_metrics) :
         monitoring_metrics[i].metric_name =
            (IF i % 2 = 1 THEN "data_drift_summary" ELSE "prediction_count")

\* Two cycles, both committed: four rows.
C4_Witness ==
    /\ CycleOver
    /\ cycles = 2
    /\ Added = 2
    /\ Len(monitoring_metrics) = 4

\* C5: when the reference file is absent the cycle ends at the existence
\* check: no session, no fetch, no report, no row, no alert.
C5_MissingReferenceEndsCycle ==
    ("reference_missing" \in failures) =>
        /\ pc = "idle"
        /\ steps = <<"load">>
        /\ session = "none"
        /\ end_time = NoTime
        /\ report_dict = NoReport
        /\ Added = 0
        /\ alert_calls = 0
        /\ http_posts = 0

\* The reference disappears after a first, committed cycle.
C5_Witness ==
    /\ "reference_missing" \in failures
    /\ cycles = 2
    /\ Len(monitoring_metrics) = 2

\* C6 as stated: a finished cycle has raised out of main_monitoring_job
\* (process-level failure) exactly when the reference was missing.
C6_OnlyMissingReferenceSignalsFailure ==
    CycleOver => (outcome = "raised" <=> "reference_missing" \in failures)

\* C7 as stated: fetch_data_from_db never raises; when the read fails it
\* returns an empty frame with end_time = now and start_time = now -
\* BATCH_HOURS, and main_monitoring_job returns through the skip branch.
C7_FetchFailureGivesEmptyWindow ==
    [][(pc = "fetch" /\ pc' # "fetch") =>
          /\ outcome' # "raised"
          /\ end_time' = now
          /\ start_time' = now - BATCH_HOURS
          /\ ("fetch" \in failures') =>
                /\ current_data' = {}
                /\ pc' = "idle"
                /\ outcome' = "returned"
                /\ steps' = <<"load", "fetch">>]_vars

\* C8: the steps of a cycle are an initial part of load, fetch, detect,
\* persist, alert, in that order and each at most once; the job waits at
\* a step only after the steps before it.
C8_StepsInOrder ==
    /\ IsPrefix(steps, Order)
    /\ pc = "fetch" => steps = <<"load">>
    /\ pc = "detect" => steps = <<"load", "fetch">>
    /\ pc = "persist" => steps = <<"load", "fetch", "detect">> /\ report_dict # NoReport
    /\ pc = "commit" => steps = <<"load", "fetch", "detect">> /\ report_dict # NoReport
    /\ pc = "alert" => steps = <<"load", "fetch", "detect", "persist">>

\* A cycle that went through all five steps.
C8_Witness == CycleOver /\ steps = Order

\* C9: at most one HTTP post per cycle, none without a webhook; whatever
\* the post does, the cycle returns normally and the rows it committed
\* are still in the table.
C9_AlertDeliveryBestEffort ==
    /\ http_posts <= 1
    /\ ~SLACK_WEBHOOK_URL => http_posts = 0
    /\ Did("alert") =>
          /\ pc = "idle"
          /\ outcome = "returned"
          /\ session = "closed"
          /\ Added = (IF "commit" \in failures THEN 0 ELSE 2)

\* The post failed after the two rows were committed.
C9_Witness ==
    /\ "alert" \in failures
    /\ http_posts = 1
    /\ Added = 2
    /\ outcome = "returned"

\* C10 as stated: every row has batch_start_time < batch_end_time.
C10_StartBeforeEnd ==
    \A i \in 1..Len(monitoring_metrics) :
        monitoring_metrics[i].batch_start_time < monitoring_metrics[i].batch_end_time

\* C11 as stated (here for positive lookbacks only): a successful fetch
\* returns exactly the rows with start_time <= prediction_time < end_time
\* (half-open interval).
C11_WindowHalfOpen ==
    [][(pc = "fetch" /\ pc' # "fetch" /\ "fetch" \notin failures'
          /\ outcome' # "raised" /\ BATCH_HOURS > 0) =>
          current_data' =
             {r \in prediction_logs :
                 /\ start_time' <= r.prediction_time
                 /\ r.prediction_time < end_time'}]_vars

\* C11 amended: a successful fetch returns exactly the rows with
\* start_time <= prediction_time <= end_time (closed interval), where
\* end_time = now and start_time = now - BATCH_HOURS; the rows stamped at
\* either bound are part of the window.
C11_WindowClosed ==
    [][(pc = "fetch" /\ pc' # "fetch" /\ "fetch" \notin failures'
          /\ outcome' # "raised") =>
          /\ end_time' = now
          /\ start_time' = now - BATCH_HOURS
          /\ current_data' =
               {r \in prediction_logs :
                   /\ start_time' <= r.prediction_time
                   /\ r.prediction_time <= end_time'}]_vars

\* The window holds a row stamped exactly at end_time, with start_time
\* strictly earlier.
C11_Witness ==
    /\ Did("fetch")
    /\ "fetch" \notin failures
    /\ start_time < end_time
    /\ \E r \in current_data : r.prediction_time = end_time

\* C12: the num_drifted_features stored on the cycle's data_drift_summary
\* row and the one given to the alert check both equal the count in the
\* report of the same cycle's detector run; whether send_slack_alert is
\* called is decided by that count and the threshold alone, whatever the
\* dataset_drift flag says.
C12_SameCountStoredAndAlerted ==
    /\ (Did("persist") /\ Added = 2) =>
          LET row == monitoring_metrics[metrics_before + 1] IN
          /\ row.metric_name = "data_drift_summary"
          /\ row.num_drifted_features = ReportedCount
          /\ row.report_summary[2] = ReportedCount
    /\ Did("persist") => num_drifted = ReportedCount
    /\ Did("alert") =>
          /\ alert_checked[1] = ReportedCount
          /\ alert_calls = (IF ReportedCount
                                 > DRIFT_THRESHOLD THEN 1 ELSE 0)

\* The flag says "no dataset drift", one feature drifted, the row stores 1
\* and the alert went out.
C12_Witness ==
    /\ CycleOver /\ Did("alert") /\ Added = 2
    /\ report_dict.dataset_drift = <<FALSE>>
    /\ report_dict.number_of_drifted_features = <<1>>
    /\ monitoring_metrics[metrics_before + 1].num_drifted_features = 1
    /\ alert_calls = 1

\* C14: monitoring_metrics is append-only: every step leaves the rows
\* already in the table in place and unchanged, and only adds rows after
\* them.
C14_AppendOnly ==
    [][IsPrefix(monitoring_metrics, monitoring_metrics')]_vars

\* A cycle was re-run over the same window: the rows of the first run are
\* still there, followed by those of the second.
C14_Witness ==
    /\ CycleOver
    /\ cycles = 2
    /\ Len(monitoring_metrics) = 4
    /\ monitoring_metrics[1].batch_start_time = monitoring_metrics[3].batch_start_time
    /\ monitoring_metrics[1].batch_end_time = monitoring_metrics[3].batch_end_time

\* C15: in every committed state of monitoring_metrics there are as many
\* data_drift_summary rows as prediction_count rows, so a dashboard run at
\* any point of a cycle never fails its lookup of the latest row of each
\* kind (no IndexError): a frame it reads or still holds in its cache is
\* empty or has a row of each kind, and when it shows metrics they are a
\* data_drift_summary row and a prediction_count row of the table.
C15_NoPartialBatchObserved ==
    /\ Len(RowsNamed(monitoring_metrics, "data_drift_summary"))
         = Len(RowsNamed(monitoring_metrics, "prediction_count"))
    /\ dashboard # "index_error"
    /\ RenderMetrics(metrics_cache.frame) # "index_error"
    /\ dashboard = "shown" =>
          /\ monitoring_metrics # <<>>
          /\ latest[1] \in 1..Len(monitoring_metrics)
          /\ latest[2] \in 1..Len(monitoring_metrics)
          /\ monitoring_metrics[latest[1]].metric_name = "data_drift_summary"
          /\ monitoring_metrics[latest[2]].metric_name = "prediction_count"

\* The dashboard rendered the metrics while the second cycle was between
\* its report and its commit, with the first cycle's pair in the table.
C15_Witness ==
    /\ dashboard = "shown"
    /\ latest = <<1, 2>>
    /\ pc = "persist"
    /\ cycles = 2
    /\ Len(monitoring_metrics) = 2
====
